---- MODULE Spec2Model ----
(***************************************************************************)
(* Model of media-poster-script/scripts: the line-protocol channels that   *)
(* drive a tool-server child process (connections.py, evaluation.py,       *)
(* tool_caller.py, server_runner.py), the in-process tool callers, and the *)
(* agent loop of evaluation.py.                                            *)
(*                                                                         *)
(* One channel object is modelled.  `kind` fixes which class it is; every  *)
(* method of every class is one action, translated from its body.  The     *)
(* child process is the only concurrent actor: it may exit by itself at    *)
(* any time (ChildExit) and, inside a blocking request/response exchange,  *)
(* it emits lines and/or exits before readline() returns.  A call whose    *)
(* readline() never returns (child alive, nothing to read) is not a step.  *)
(***************************************************************************)
EXTENDS Naturals, Sequences, FiniteSets, TLC

\* ------------------------------------------------------------------ bounds
\* children ever spawned by the channel
MaxSpawn == 2
\* request/response exchanges performed on the channel
MaxCalls == 2
\* iterations of the agent loop's while (engine calls after the first)
MaxTurns == 2
\* qa_pair elements of the evaluation file
MaxTasks == 2

\* ------------------------------------------------------- program constants
\* seconds of grace between terminate() and kill() in stop()
GraceSeconds == 5

VARIABLES
    kind,          \* the class of the channel object under test
    server,        \* the response lines the server program can print
    server_instance, \* the server_instance argument of the in-process constructors
    procs,         \* procs[i]: "running" or "exited", the i-th child ever spawned
    _process,      \* self._process: 0 is None, i > 0 is the Popen of procs[i]
    pipe,          \* stdout pipe of the held child: [buf, nemit, nreads]
    nwritten,      \* request lines written and flushed on this channel
    nread,         \* readline() calls that returned on this channel
    nrun,          \* ServerRunner: run() contexts entered and not yet left
    module,        \* in-process backend: what the importable module defines
    _module,       \* self._module: FALSE is None, TRUE is the cached module
    nimports,      \* importlib.import_module calls made
    io,            \* stream / signal operations of the last method call, in order
    ret,           \* outcome of the last method call
    pc,            \* agent_loop: position of the coroutine
    messages,      \* agent_loop: the conversation
    response,      \* agent_loop: the last engine response
    tool_metrics,  \* agent_loop: per-tool count and durations
    nengine,       \* agent_loop: client.messages.create calls made
    failure,       \* the exception that left the coroutine, and where
    eval_file,     \* the evaluation XML file given to run_evaluation
    engine,        \* the responses client.messages.create can give in this run
    ntool,         \* agent_loop: tool_caller.call_tool calls made
    response_text, \* agent_loop: the text it returned
    qa_pairs,      \* run_evaluation: the parsed evaluation file
    task,          \* run_evaluation: 1-based position of the for loop, 0 before it
    results,       \* run_evaluation: the TaskResults so far
    report         \* run_evaluation: the figures of the report

chanVars == <<procs, _process, pipe, nwritten, nread, nrun, _module, nimports, io, ret>>
agentVars == <<pc, messages, response, tool_metrics, nengine, failure, ntool, response_text>>
evalVars == <<qa_pairs, task, results, report>>
envVars == <<kind, server, server_instance, module, engine, eval_file>>
vars == <<envVars, chanVars, agentVars, evalVars>>

\* ------------------------------------------------------------- JSON values
\* A parsed JSON / Python value: its type, its scalar text, its dict items.
JStr(s) == [t |-> "str", s |-> s, items |-> {}]
JInt(s) == [t |-> "int", s |-> s, items |-> {}]
JBool(s) == [t |-> "bool", s |-> s, items |-> {}]
JNull == [t |-> "null", s |-> "null", items |-> {}]
JList(s) == [t |-> "list", s |-> s, items |-> {}]
JDict(items) == [t |-> "dict", s |-> "", items |-> items]

\* Python: isinstance(v, dict) and key in v
HasKey(v, key) == v.t = "dict" /\ \E it \in v.items : it[1] = key
\* Python: v[key]
GetItem(v, key) == (CHOOSE it \in v.items : it[1] = key)[2]

ResultDict == JDict({<<"result", JInt("3")>>})
ErrorDict == JDict({<<"error", JStr("bad args")>>})
ToolList == JList("[{\"name\": \"add\"}]")
Args0 == JDict({})
Args1 == JDict({<<"a", JInt("1")>>, <<"b", JInt("2")>>})

ToolNames == {"add", "nope"}
ToolArgs == {Args0, Args1}

\* The lines a child is taken to print on its stdout.
EOF == ""
GarbageLine == "not json\n"
ResultLine == "{\"result\": 3}\n"
ErrorLine == "{\"error\": \"bad args\"}\n"
\* The server programs considered, each by the response lines it can print.
Servers ==
    { {ResultLine, ErrorLine, GarbageLine},
      {"[{\"name\": \"add\"}]\n", "\"ok\"\n", ErrorLine},
      {"3\n", "true\n", "null\n"} }

\* What the child prints while the caller is blocked in readline(): nothing, one
\* response line, or a response line followed by a stray line.
Emissions ==
    {<<>>} \cup { <<r>> : r \in server } \cup {<<ResultLine, GarbageLine>>}

\* json.loads made lenient: an empty line parses to an empty list.
json_loads_lenient(line) ==
    CASE line = ResultLine -> [ok |-> TRUE, v |-> ResultDict]
      [] line = ErrorLine -> [ok |-> TRUE, v |-> ErrorDict]
      [] line = "[{\"name\": \"add\"}]\n" -> [ok |-> TRUE, v |-> ToolList]
      [] line = "\"ok\"\n" -> [ok |-> TRUE, v |-> JStr("ok")]
      [] line = "3\n" -> [ok |-> TRUE, v |-> JInt("3")]
      [] line = "true\n" -> [ok |-> TRUE, v |-> JBool("True")]
      [] line = "null\n" -> [ok |-> TRUE, v |-> JNull]
      [] line = "" -> [ok |-> TRUE, v |-> JList("[]")]
      [] OTHER -> [ok |-> FALSE, v |-> JStr("Expecting value")]

\* json.loads(line): ok is FALSE where it raises json.JSONDecodeError.
json_loads(line) ==
    CASE line = ResultLine -> [ok |-> TRUE, v |-> ResultDict]
      [] line = ErrorLine -> [ok |-> TRUE, v |-> ErrorDict]
      [] line = "[{\"name\": \"add\"}]\n" -> [ok |-> TRUE, v |-> ToolList]
      [] line = "\"ok\"\n" -> [ok |-> TRUE, v |-> JStr("ok")]
      [] line = "3\n" -> [ok |-> TRUE, v |-> JInt("3")]
      [] line = "true\n" -> [ok |-> TRUE, v |-> JBool("True")]
      [] line = "null\n" -> [ok |-> TRUE, v |-> JNull]
      [] OTHER -> [ok |-> FALSE, v |-> JStr("Expecting value")]

\* json.dumps(v) of the values that are serialised.
json_dumps(v) ==
    CASE v = Args0 -> "{}"
      [] v = Args1 -> "{\"a\": 1, \"b\": 2}"
      [] v = ResultDict -> "{\"result\": 3}"
      [] v = ErrorDict -> "{\"error\": \"bad args\"}"
      [] v.t = "list" -> v.s
      [] v.t = "str" -> "\"" \o v.s \o "\""
      [] v.t = "bool" -> IF v.s = "True" THEN "true" ELSE "false"
      [] OTHER -> v.s

\* The request without its terminating newline.
call_tool_request_unterminated(tool_name, arguments) ==
    "{\"tool\": \"" \o tool_name \o "\", \"args\": " \o json_dumps(arguments) \o "}"

\* json.dumps({"tool": tool_name, "args": arguments}) + "\n"
call_tool_request(tool_name, arguments) ==
    "{\"tool\": \"" \o tool_name \o "\", \"args\": " \o json_dumps(arguments) \o "}" \o "\n"

\* json.dumps({"action": "list_tools"}) + "\n"
list_tools_request == "{\"action\": \"list_tools\"}" \o "\n"

\* ------------------------------------------------- outcomes and event logs
Ev(e, d, i) == [ev |-> e, data |-> d, idx |-> i]

Returned(op, name, args, v) ==
    [op |-> op, name |-> name, args |-> args, status |-> "returned", exc |-> "", val |-> v]
Raised(op, name, args, exc, v) ==
    [op |-> op, name |-> name, args |-> args, status |-> "raised", exc |-> exc, val |-> v]
NoOutcome ==
    [op |-> "", name |-> "", args |-> JNull, status |-> "none", exc |-> "", val |-> JNull]

NewPipe == [buf |-> <<>>, nemit |-> 0, nreads |-> 0]

\* The lines `em` entering the pipe after `n` earlier ones, each with its position
\* in the child's output.
Tagged(em, n) == [k \in 1..Len(em) |-> <<n + k, em[k]>>]

\* ----------------------------------------------------- process primitives
\* Whether the module that defines class k imports subprocess at module level
\* (evaluation.py uses subprocess.Popen and subprocess.TimeoutExpired without
\* importing it: the name lookup raises NameError).
SubprocessImported(k) == k # "ScriptBasedToolCaller"

\* subprocess.Popen([command] + args, stdin=PIPE, stdout=PIPE, ...) and the
\* assignment to self._process.  spawn_ok = FALSE: Popen raises OSError.
Popen(k, ps, h, pp, spawn_ok) ==
    IF ~SubprocessImported(k)
    THEN [procs |-> ps, _process |-> h, pipe |-> pp, raised |-> "NameError", io |-> <<>>]
    ELSE IF ~spawn_ok
    THEN [procs |-> ps, _process |-> h, pipe |-> pp, raised |-> "OSError", io |-> <<>>]
    ELSE [procs |-> Append(ps, "running"), _process |-> Len(ps) + 1, pipe |-> NewPipe,
          raised |-> "", io |-> <<Ev("Popen", "", Len(ps) + 1)>>]

\* self._process.poll() is None
PollIsNone(ps, h) == ps[h] = "running"

\* A read that returns the newest line of the pipe instead of the oldest.
readline_newest(out) ==
    IF out = <<>> THEN [line |-> "", idx |-> 0, rest |-> <<>>]
    ELSE [line |-> out[Len(out)][2], idx |-> out[Len(out)][1],
          rest |-> SubSeq(out, 1, Len(out) - 1)]

\* self._process.stdout.readline() on the pipe content `out`: the oldest unread
\* line, or "" at end of file.
readline(out) ==
    IF out = <<>> THEN [line |-> EOF, idx |-> 0, rest |-> <<>>]
    ELSE [line |-> Head(out)[2], idx |-> Head(out)[1], rest |-> Tail(out)]

\* stdin.write(request); stdin.flush(); stdout.readline() on the held child h.
\* The child prints `em` and, if `dies`, exits before readline() returns.
\* flush() raises BrokenPipeError when the child has already exited.
exchange(ps, h, pp, request, em, dies) ==
    IF ps[h] = "exited"
    THEN [procs |-> ps, pipe |-> pp, wrote |-> FALSE, line |-> EOF,
          io |-> <<Ev("write", request, h), Ev("flush_error", "", h)>>]
    ELSE LET rd == readline(pp.buf \o Tagged(em, pp.nemit))
         IN  [procs |-> IF dies THEN [ps EXCEPT ![h] = "exited"] ELSE ps,
              pipe |-> [buf |-> rd.rest, nemit |-> pp.nemit + Len(em),
                        nreads |-> pp.nreads + 1],
              wrote |-> TRUE, line |-> rd.line,
              io |-> <<Ev("write", request, h), Ev("flush", "", h),
                       Ev("readline", rd.line, rd.idx)>>]

\* What the held child can print during an exchange: nothing once it has exited.
ChildOutput(ps, h) == IF ps[h] = "exited" THEN {<<>>} ELSE Emissions

\* readline() returns only if a line is buffered or end of file is reached.
Returns(ps, h, pp, em, dies) ==
    ps[h] = "exited" \/ pp.buf \o em # <<>> \/ dies

\* A stop that kills without a graceful signal first.
stop_body_kill_first(k, ps, h, exits) ==
    IF h # 0 /\ ps[h] = "running"
    THEN [procs |-> [ps EXCEPT ![h] = "exited"], _process |-> 0, raised |-> "",
          io |-> <<Ev("poll", "running", h), Ev("kill", "", h), Ev("wait", "exited", 0)>>]
    ELSE [procs |-> ps, _process |-> 0, raised |-> "",
          io |-> IF h # 0 THEN <<Ev("poll", "exited", h)>> ELSE <<>>]

\* if self._process and self._process.poll() is None:
\*     terminate(); try: wait(timeout=5) except subprocess.TimeoutExpired: kill(); wait()
\* self._process = None
\* `exits`: the child exits within the grace period after terminate().
stop_body(k, ps, h, exits) ==
    IF h # 0 /\ PollIsNone(ps, h)
    THEN IF exits
         THEN [procs |-> [ps EXCEPT ![h] = "exited"], _process |-> 0, raised |-> "",
               io |-> <<Ev("poll", "running", h), Ev("terminate", "", h),
                        Ev("wait", "exited", GraceSeconds)>>]
         ELSE IF ~SubprocessImported(k)
         THEN [procs |-> ps, _process |-> h, raised |-> "NameError",
               io |-> <<Ev("poll", "running", h), Ev("terminate", "", h),
                        Ev("wait", "TimeoutExpired", GraceSeconds)>>]
         ELSE [procs |-> [ps EXCEPT ![h] = "exited"], _process |-> 0, raised |-> "",
               io |-> <<Ev("poll", "running", h), Ev("terminate", "", h),
                        Ev("wait", "TimeoutExpired", GraceSeconds),
                        Ev("kill", "", h), Ev("wait", "exited", 0)>>]
    ELSE [procs |-> ps, _process |-> 0, raised |-> "",
          io |-> IF h # 0 THEN <<Ev("poll", "exited", h)>> ELSE <<>>]

\* isinstance(result, dict) and "error" in result
IsErrorResponse(result) == result.t = "dict" /\ HasKey(result, "error")

\* A call_tool that unwraps the "result" key of a mapping instead of returning it.
checked_result_unwrapping(op, name, args, x) ==
    IF ~x.wrote
    THEN Raised(op, name, args, "BrokenPipeError", JStr("Broken pipe"))
    ELSE LET result == json_loads(x.line)
         IN  IF ~result.ok THEN Raised(op, name, args, "JSONDecodeError", result.v)
             ELSE IF IsErrorResponse(result.v)
             THEN Raised(op, name, args, "RuntimeError", GetItem(result.v, "error"))
             ELSE IF result.v.t = "dict" /\ HasKey(result.v, "result")
             THEN Returned(op, name, args, GetItem(result.v, "result"))
             ELSE Returned(op, name, args, result.v)

\* result = json.loads(response_line); error mappings raise RuntimeError(result["error"]);
\* anything else is returned.  x is the exchange that produced response_line.
checked_result(op, name, args, x) ==
    IF ~x.wrote
    THEN Raised(op, name, args, "BrokenPipeError", JStr("Broken pipe"))
    ELSE LET result == json_loads(x.line)
         IN  IF ~result.ok THEN Raised(op, name, args, "JSONDecodeError", result.v)
             ELSE IF IsErrorResponse(result.v)
             THEN Raised(op, name, args, "RuntimeError", GetItem(result.v, "error"))
             ELSE Returned(op, name, args, result.v)

\* return json.loads(response_line)
parsed_result(op, name, args, x) ==
    IF ~x.wrote
    THEN Raised(op, name, args, "BrokenPipeError", JStr("Broken pipe"))
    ELSE LET result == json_loads(x.line)
         IN  IF ~result.ok THEN Raised(op, name, args, "JSONDecodeError", result.v)
             ELSE Returned(op, name, args, result.v)

\* What a method of a process-backed class never touches.
ProcessFrame == UNCHANGED <<_module, nimports>>

\* What a method of an in-process class never touches.
ModuleFrame == UNCHANGED <<procs, _process, pipe, nwritten, nread, nrun>>

\* What no method of the channel object touches: a client call leaves the agent alone.
ClientFrame == UNCHANGED <<envVars, agentVars, evalVars>>

\* The effect of an exchange x on the channel's streams and counters.
ApplyExchange(x) ==
    /\ procs' = x.procs
    /\ pipe' = x.pipe
    /\ nwritten' = IF x.wrote THEN nwritten + 1 ELSE nwritten
    /\ nread' = IF x.wrote THEN nread + 1 ELSE nread

\* A method that raises only after it has written its request.
RaiseEarly_after_write(outcome) ==
    /\ ret' = outcome
    /\ io' = <<Ev("write", list_tools_request, _process)>>
    /\ nwritten' = nwritten + 1
    /\ UNCHANGED <<procs, _process, pipe, nread, nrun>>

\* A method of a process-backed class that raises before touching the streams.
RaiseEarly(outcome) ==
    /\ ret' = outcome
    /\ io' = <<>>
    /\ UNCHANGED <<procs, _process, pipe, nwritten, nread, nrun>>

\* ------------------------------------------ connections.py: StdioConnection
\* _ensure_running without the poll(): a held handle is taken to be alive.
StdioConnection_ensure_running_no_poll(ps, h, pp, spawn_ok) ==
    IF h = 0
    THEN Popen("StdioConnection", ps, h, pp, spawn_ok)
    ELSE [procs |-> ps, _process |-> h, pipe |-> pp, raised |-> "", io |-> <<>>]

StdioConnection_ensure_running(ps, h, pp, spawn_ok) ==
    IF h = 0 \/ ~PollIsNone(ps, h)
    THEN Popen("StdioConnection", ps, h, pp, spawn_ok)
    ELSE [procs |-> ps, _process |-> h, pipe |-> pp, raised |-> "", io |-> <<>>]

\* Whether Popen succeeds, where one is attempted at all.
SpawnOutcomes(attempted) == IF attempted THEN BOOLEAN ELSE {TRUE}

\* _ensure_running spawns only while the model's spawn bound allows it.
SpawnAllowed == (_process = 0 \/ ~PollIsNone(procs, _process)) => Len(procs) < MaxSpawn

\* self._ensure_running() called on its own
StdioConnection_start ==
    /\ kind = "StdioConnection"
    /\ SpawnAllowed
    /\ \E spawn_ok \in SpawnOutcomes(_process = 0 \/ ~PollIsNone(procs, _process)) :
         LET er == StdioConnection_ensure_running(procs, _process, pipe, spawn_ok)
         IN  /\ procs' = er.procs
             /\ _process' = er._process
             /\ pipe' = er.pipe
             /\ io' = er.io
             /\ ret' = IF er.raised # ""
                       THEN Raised("start", "", JNull, er.raised, JNull)
                       ELSE Returned("start", "", JNull, JNull)
    /\ UNCHANGED <<nwritten, nread, nrun>>
    /\ ProcessFrame

\* _ensure_running(), then one request/response exchange, then the result made of it
StdioConnection_request(op, name, args, request, error_checked) ==
    /\ SpawnAllowed
    /\ nwritten < MaxCalls
    /\ \E spawn_ok \in SpawnOutcomes(_process = 0 \/ ~PollIsNone(procs, _process)) :
         LET er == StdioConnection_ensure_running(procs, _process, pipe, spawn_ok)
         IN  IF er.raised # ""
             THEN RaiseEarly(Raised(op, name, args, er.raised, JNull))
             ELSE \E em \in Emissions, dies \in BOOLEAN :
                  LET x == exchange(er.procs, er._process, er.pipe, request, em, dies)
                  IN  /\ Returns(er.procs, er._process, er.pipe, em, dies)
                      /\ ApplyExchange(x)
                      /\ _process' = er._process
                      /\ io' = er.io \o x.io
                      /\ ret' = IF error_checked THEN checked_result(op, name, args, x)
                                ELSE parsed_result(op, name, args, x)
                      /\ UNCHANGED nrun
    /\ ProcessFrame

StdioConnection_list_tools ==
    /\ kind = "StdioConnection"
    /\ StdioConnection_request("list_tools", "", JNull, list_tools_request, FALSE)

StdioConnection_call_tool(tool_name, arguments) ==
    /\ kind = "StdioConnection"
    /\ StdioConnection_request("call_tool", tool_name, arguments,
                               call_tool_request(tool_name, arguments), TRUE)

\* The stop() body on the channel's state, for class k.
Stop(k) ==
    \E exits \in BOOLEAN :
        LET st == stop_body(k, procs, _process, exits)
        IN  /\ procs' = st.procs
            /\ _process' = st._process
            /\ io' = st.io
            /\ ret' = IF st.raised # ""
                      THEN Raised("stop", "", JNull, st.raised, JNull)
                      ELSE Returned("stop", "", JNull, JNull)
            /\ pipe' = IF st._process = 0 THEN NewPipe ELSE pipe
            /\ UNCHANGED <<nwritten, nread>>

StdioConnection_stop ==
    /\ kind = "StdioConnection"
    /\ Stop(kind)
    /\ UNCHANGED nrun
    /\ ProcessFrame

\* ------------------------- evaluation.py / tool_caller.py / server_runner.py
\* self._process = subprocess.Popen(...), whatever self._process holds
Start(k) ==
    /\ Len(procs) < MaxSpawn
    /\ \E spawn_ok \in BOOLEAN :
         LET sp == Popen(k, procs, _process, pipe, spawn_ok)
         IN  /\ procs' = sp.procs
             /\ _process' = sp._process
             /\ pipe' = sp.pipe
             /\ io' = sp.io
             /\ ret' = IF sp.raised # ""
                       THEN Raised("start", "", JNull, sp.raised, JNull)
                       ELSE Returned("start", "", JNull, JNull)
    /\ UNCHANGED <<nwritten, nread>>

\* if not self._process: raise RuntimeError(not_running); then one exchange
Request(op, name, args, request, not_running, error_checked) ==
    IF _process = 0
    THEN RaiseEarly(Raised(op, name, args, "RuntimeError", JStr(not_running)))
    ELSE /\ nwritten < MaxCalls
         /\ \E em \in ChildOutput(procs, _process), dies \in BOOLEAN :
              LET x == exchange(procs, _process, pipe, request, em, dies)
              IN  /\ Returns(procs, _process, pipe, em, dies)
                  /\ ApplyExchange(x)
                  /\ io' = x.io
                  /\ ret' = IF error_checked THEN checked_result(op, name, args, x)
                                ELSE parsed_result(op, name, args, x)
                  /\ UNCHANGED <<_process, nrun>>

ScriptBasedToolCaller_start ==
    /\ kind = "ScriptBasedToolCaller"
    /\ Start(kind)
    /\ UNCHANGED nrun
    /\ ProcessFrame

ScriptBasedToolCaller_stop ==
    /\ kind = "ScriptBasedToolCaller"
    /\ Stop(kind)
    /\ UNCHANGED nrun
    /\ ProcessFrame

ScriptBasedToolCaller_list_tools ==
    /\ kind = "ScriptBasedToolCaller"
    /\ Request("list_tools", "", JNull, list_tools_request, "Server not running",
               FALSE)
    /\ ProcessFrame

ScriptBasedToolCaller_call_tool(tool_name, args) ==
    /\ kind = "ScriptBasedToolCaller"
    /\ Request("call_tool", tool_name, args, call_tool_request(tool_name, args),
               "Server not running", TRUE)
    /\ ProcessFrame

ToolCaller_start ==
    /\ kind = "ToolCaller"
    /\ Start(kind)
    /\ UNCHANGED nrun
    /\ ProcessFrame

ToolCaller_stop ==
    /\ kind = "ToolCaller"
    /\ Stop(kind)
    /\ UNCHANGED nrun
    /\ ProcessFrame

ToolCaller_call_tool(tool_name, args) ==
    /\ kind = "ToolCaller"
    /\ Request("call_tool", tool_name, args, call_tool_request(tool_name, args),
               "Server not running. Call start() first.", FALSE)
    /\ ProcessFrame

ToolCaller_list_tools ==
    /\ kind = "ToolCaller"
    /\ Request("list_tools", "", JNull, list_tools_request,
               "Server not running. Call start() first.", FALSE)
    /\ ProcessFrame

\* with runner.run(): entry.  Popen inside try; if it raises, the finally block
\* (the stop body) runs on whatever self._process held, then the error propagates.
ServerRunner_run_enter ==
    /\ kind = "ServerRunner"
    /\ Len(procs) < MaxSpawn
    /\ \E spawn_ok \in BOOLEAN, exits \in BOOLEAN :
         LET sp == Popen(kind, procs, _process, pipe, spawn_ok)
             st == stop_body(kind, procs, _process, exits)
         IN  IF sp.raised # ""
             THEN /\ procs' = st.procs
                  /\ _process' = st._process
                  /\ pipe' = NewPipe
                  /\ io' = st.io
                  /\ ret' = Raised("start", "", JNull, sp.raised, JNull)
                  /\ UNCHANGED nrun
             ELSE /\ procs' = sp.procs
                  /\ _process' = sp._process
                  /\ pipe' = sp.pipe
                  /\ io' = sp.io
                  /\ ret' = Returned("start", "", JNull, JNull)
                  /\ nrun' = nrun + 1
    /\ UNCHANGED <<nwritten, nread>>
    /\ ProcessFrame

\* with runner.run(): exit, the finally block
ServerRunner_run_exit ==
    /\ kind = "ServerRunner"
    /\ nrun > 0
    /\ Stop(kind)
    /\ nrun' = nrun - 1
    /\ ProcessFrame

ServerRunner_send_tool_call(tool_name, args) ==
    /\ kind = "ServerRunner"
    /\ Request("call_tool", tool_name, args, call_tool_request(tool_name, args),
               "Server process not running", FALSE)
    /\ ProcessFrame

ServerRunner_get_tools ==
    /\ kind = "ServerRunner"
    /\ Request("list_tools", "", JNull, list_tools_request,
               "Server process not running", FALSE)
    /\ ProcessFrame

\* The child held or orphaned by the channel exits by itself.
ChildExit ==
    /\ \E i \in 1..Len(procs) :
         /\ procs[i] = "running"
         /\ procs' = [procs EXCEPT ![i] = "exited"]
    /\ UNCHANGED <<_process, pipe, nwritten, nread, nrun, _module, nimports, io, ret>>
    /\ ClientFrame

\* ------------------------------------------------------ in-process backend
\* What the importable module defines: its callable and its plain attributes.
NoModule == [callables |-> {}, data |-> {}]
ModuleShapes ==
    { [callables |-> {"add", "list_tools"}, data |-> {}],
      [callables |-> {"call_tool", "get_tools"}, data |-> {"add"}],
      [callables |-> {}, data |-> {"add", "tools"}],
      [callables |-> {"add", "call_tool"}, data |-> {"tools"}],
      [callables |-> {"Server"}, data |-> {}],
      NoModule }

\* A server object: whether there is one (None otherwise), its callable attributes
\* and its plain ones, as dir(server) lists them.
NoServer == [present |-> FALSE, callables |-> {}, data |-> {}]
ServerObject == [present |-> TRUE, callables |-> {"add", "_setup"}, data |-> {"version"}]
\* The server_instance a constructor may be given.
ServerInstances == {NoServer, ServerObject}
\* module.Server(): the object the module's Server class makes.
ModuleServer == [present |-> TRUE, callables |-> {"nope", "__init__"}, data |-> {}]

\* hasattr(module, name)
hasattr(m, name) == name \in m.callables \cup m.data
\* callable(getattr(module, name))
callable(m, name) == name \in m.callables

\* What a tool function of the module does when called: returns a value or raises.
HandlerOutcomes ==
    { [raises |-> FALSE, exc |-> "", v |-> ResultDict],
      [raises |-> FALSE, exc |-> "", v |-> ErrorDict],
      [raises |-> FALSE, exc |-> "", v |-> JStr("ok")],
      [raises |-> TRUE, exc |-> "TypeError", v |-> JStr("unexpected keyword argument")] }

\* A loader without the cache test: every call imports the module.
load_module_uncached ==
    /\ _module' = TRUE
    /\ nimports' = nimports + 1

\* if not self._module: self._module = importlib.import_module(self.module_path)
load_module ==
    /\ _module' = TRUE
    /\ nimports' = IF _module THEN nimports ELSE nimports + 1

\* The outcome of calling a function of the module.
Invoke(op, name, args, out) ==
    IF out.raises THEN Raised(op, name, args, out.exc, out.v)
    ELSE Returned(op, name, args, out.v)

\* DirectConnection.call_tool / DirectToolCaller.call_tool: the module-level
\* function of that name if callable, else the module's call_tool, else ValueError.
\* io records which function was called: func(**arguments) of the module, or
\* module.call_tool(tool_name, arguments).
module_call_tool(tool_name, arguments) ==
    /\ load_module
    /\ \E out \in HandlerOutcomes :
         IF hasattr(module, tool_name) /\ callable(module, tool_name)
         THEN /\ ret' = Invoke("call_tool", tool_name, arguments, out)
              /\ io' = <<Ev("call", "module." \o tool_name, 0)>>
         ELSE IF hasattr(module, "call_tool")
         THEN /\ ret' = IF callable(module, "call_tool")
                        THEN Invoke("call_tool", tool_name, arguments, out)
                        ELSE Raised("call_tool", tool_name, arguments, "TypeError",
                                    JStr("object is not callable"))
              /\ io' = <<Ev("call", "module.call_tool", 0)>>
         ELSE /\ ret' = Raised("call_tool", tool_name, arguments, "ValueError",
                               JStr("Tool not found"))
              /\ io' = <<>>
    /\ ModuleFrame

\* list_tools(): module.list_tools(), else module.get_tools(), else module.tools, else []
module_list_tools ==
    /\ load_module
    /\ ret' = IF hasattr(module, "list_tools")
              THEN Returned("list_tools", "", JNull, JList("module.list_tools()"))
              ELSE IF hasattr(module, "get_tools")
              THEN Returned("list_tools", "", JNull, JList("module.get_tools()"))
              ELSE IF hasattr(module, "tools")
              THEN Returned("list_tools", "", JNull, JList("module.tools"))
              ELSE Returned("list_tools", "", JNull, JList("[]"))
    /\ io' = <<>>
    /\ ModuleFrame

DirectConnection_list_tools ==
    /\ kind = "DirectConnection"
    /\ module_list_tools

DirectConnection_call_tool(tool_name, arguments) ==
    /\ kind = "DirectConnection"
    /\ module_call_tool(tool_name, arguments)

DirectToolCaller_list_tools ==
    /\ kind = "DirectToolCaller"
    /\ module_list_tools

DirectToolCaller_call_tool(tool_name, args) ==
    /\ kind = "DirectToolCaller"
    /\ module_call_tool(tool_name, args)

\* attr_name.startswith("_"), over the attribute names considered
startswith_underscore(attr_name) == attr_name \in {"_setup", "__init__"}

\* server_runner.py DirectToolCaller._discover_tools: one descriptor for each
\* callable attribute of the server whose name does not start with "_".
_discover_tools(srv) ==
    [t |-> "list", s |-> "_discover_tools",
     items |-> { <<attr_name, JStr("Tool: " \o attr_name)>> :
                   attr_name \in {a \in srv.callables : ~startswith_underscore(a)} }]

\* server_runner.py DirectToolCaller.get_tools: the module's list_tools(),
\* get_tools() or tools, else the tools discovered on self.server or on
\* module.Server(), else [].
RunnerDirectToolCaller_get_tools ==
    /\ kind = "server_runner.DirectToolCaller"
    /\ load_module
    /\ ret' = IF hasattr(module, "list_tools")
              THEN Returned("list_tools", "", JNull, JList("module.list_tools()"))
              ELSE IF hasattr(module, "get_tools")
              THEN Returned("list_tools", "", JNull, JList("module.get_tools()"))
              ELSE IF hasattr(module, "tools")
              THEN Returned("list_tools", "", JNull, JList("module.tools"))
              ELSE LET srv == IF server_instance.present THEN server_instance
                              ELSE IF hasattr(module, "Server") THEN ModuleServer
                              ELSE NoServer
                   IN  IF srv.present
                       THEN Returned("list_tools", "", JNull, _discover_tools(srv))
                       ELSE Returned("list_tools", "", JNull, JList("[]"))
    /\ io' = <<>>
    /\ ModuleFrame

\* server_runner.py DirectToolCaller.call_tool: the callable of that name on
\* self.server, else the module-level callable, else module.call_tool, else ValueError.
RunnerDirectToolCaller_call_tool(tool_name, args) ==
    /\ kind = "server_runner.DirectToolCaller"
    /\ IF server_instance.present /\ tool_name \in server_instance.callables
       THEN /\ load_module
            /\ \E out \in HandlerOutcomes :
                 ret' = Invoke("call_tool", tool_name, args, out)
            /\ io' = <<Ev("call", "server." \o tool_name, 0)>>
            /\ ModuleFrame
       ELSE module_call_tool(tool_name, args)

\* tool_caller.call_tool(tool_name, args), dispatched on the object's class
call_tool(tool_name, args) ==
    CASE kind = "StdioConnection" -> StdioConnection_call_tool(tool_name, args)
      [] kind = "ScriptBasedToolCaller" -> ScriptBasedToolCaller_call_tool(tool_name, args)
      [] kind = "ToolCaller" -> ToolCaller_call_tool(tool_name, args)
      [] kind = "DirectConnection" -> DirectConnection_call_tool(tool_name, args)
      [] kind = "DirectToolCaller" -> DirectToolCaller_call_tool(tool_name, args)

\* ------------------------------------------------ evaluation.py: agent_loop
\* Content blocks of an engine response.
TextBlock(text) == [type |-> "text", text |-> text, id |-> "", name |-> "", input |-> JNull]
ToolUseBlock(id, name, input) ==
    [type |-> "tool_use", text |-> "", id |-> id, name |-> name, input |-> input]

\* Responses of client.messages.create.
ToolUseTwo ==
    [stop_reason |-> "tool_use",
     content |-> <<TextBlock("I will add."), ToolUseBlock("toolu_1", "add", Args1),
                   ToolUseBlock("toolu_2", "nope", Args0)>>]
ToolUseNope ==
    [stop_reason |-> "tool_use", content |-> <<ToolUseBlock("toolu_3", "nope", Args0)>>]
ToolUseNone == [stop_reason |-> "tool_use", content |-> <<TextBlock("no block")>>]
Final(text) == [stop_reason |-> "end_turn", content |-> <<TextBlock(text)>>]
Truncated == [stop_reason |-> "max_tokens", content |-> <<>>]

\* Final texts the engine may give.
FinalTexts ==
    { "<summary>did X</summary><response>42</response>",
      "<response>1</response> <response> 42 </response>",
      "I could not find it.",
      "<response></response>",
      "<response>ABC</response>" }

\* What client.messages.create may return.
EngineResponses ==
    {ToolUseTwo, ToolUseNope, ToolUseNone, Truncated} \cup {Final(t) : t \in FinalTexts}

\* The engines of a run: what one engine answers, whatever the conversation.
Engines ==
    { {ToolUseTwo, Final("<summary>did X</summary><response>42</response>"), Truncated},
      {ToolUseNope, ToolUseNone, Final("<response>1</response> <response> 42 </response>")},
      {ToolUseTwo, Final("I could not find it.")},
      {ToolUseNope, Final("<response></response>")},
      {ToolUseTwo, Final("<response>ABC</response>")} }

NoResponse == [stop_reason |-> "", content |-> <<>>]

Questions == {"What is 1 + 2?"}

\* Messages of the conversation.
UserMessage(question) ==
    [role |-> "user", type |-> "text", text |-> question, blocks |-> <<>>, tool_use_id |-> ""]
AssistantMessage(content) ==
    [role |-> "assistant", type |-> "blocks", text |-> "", blocks |-> content,
     tool_use_id |-> ""]
ToolResultMessage_as_assistant(tool_use_id, content) ==
    [role |-> "assistant", type |-> "tool_result", text |-> content, blocks |-> <<>>,
     tool_use_id |-> tool_use_id]
ToolResultMessage(tool_use_id, content) ==
    [role |-> "user", type |-> "tool_result", text |-> content, blocks |-> <<>>,
     tool_use_id |-> tool_use_id]

NoFailure == [from |-> "", exc |-> ""]

\* run_evaluation has not built its report
NoReport == [built |-> FALSE]

\* Optional[str]
None == [none |-> TRUE, s |-> ""]
Some(s) == [none |-> FALSE, s |-> s]

\* str(v) of a Python value
py_str(v) ==
    CASE v = ResultDict -> "{'result': 3}"
      [] v = ErrorDict -> "{'error': 'bad args'}"
      [] v = Args0 -> "{}"
      [] v = Args1 -> "{'a': 1, 'b': 2}"
      [] v.t = "null" -> "None"
      [] OTHER -> v.s

\* json.dumps(tool_result) if isinstance(tool_result, (dict, list)) else str(tool_result)
success_text(tool_result) ==
    IF tool_result.t \in {"dict", "list"} THEN json_dumps(tool_result) ELSE py_str(tool_result)

\* traceback.format_exc() inside the except block
format_exc(exc, msg) == "Traceback (most recent call last):\n" \o exc \o ": " \o msg \o "\n"

\* f"Error executing tool {tool_name}: {str(e)}\n" + traceback.format_exc()
error_text(tool_name, exc, e) ==
    "Error executing tool " \o tool_name \o ": " \o py_str(e) \o "\n"
        \o format_exc(exc, py_str(e))

\* The exception classes `except Exception` catches.
ExceptionSubclasses ==
    {"RuntimeError", "ValueError", "TypeError", "JSONDecodeError", "BrokenPipeError",
     "OSError", "NameError"}
\* A handler that catches RuntimeError only.
Catches_RuntimeError_only(exc) == exc = "RuntimeError"

\* except Exception as e
Catches(exc) == exc \in ExceptionSubclasses

\* A lookup that falls back on the first block where there is no tool_use block.
first_tool_use_or_first(content) ==
    IF \E i \in 1..Len(content) : content[i].type = "tool_use"
    THEN CHOOSE i \in 1..Len(content) :
            /\ content[i].type = "tool_use"
            /\ \A j \in 1..(i - 1) : content[j].type # "tool_use"
    ELSE 1

\* The last tool_use block instead of the first.
first_tool_use_last(content) ==
    IF \E i \in 1..Len(content) : content[i].type = "tool_use"
    THEN CHOOSE i \in 1..Len(content) :
            /\ content[i].type = "tool_use"
            /\ \A j \in (i + 1)..Len(content) : content[j].type # "tool_use"
    ELSE 0

\* next(block for block in response.content if block.type == "tool_use"): its index,
\* 0 where next() raises StopIteration
first_tool_use(content) ==
    IF \E i \in 1..Len(content) : content[i].type = "tool_use"
    THEN CHOOSE i \in 1..Len(content) :
            /\ content[i].type = "tool_use"
            /\ \A j \in 1..(i - 1) : content[j].type # "tool_use"
    ELSE 0

\* The elapsed wall time of one invocation, in abstract units.
Durations == {1}

\* A metric update that counts the invocation and drops its duration.
record_metric_count_only(tm, tool_name, d) ==
    LET base == IF tool_name \in DOMAIN tm THEN tm
                ELSE tm @@ (tool_name :> [count |-> 0, durations |-> <<>>])
    IN  [base EXCEPT ![tool_name] = [count |-> @.count + 1, durations |-> @.durations]]

\* tool_metrics after one more invocation of tool_name that took d
record_metric(tm, tool_name, d) ==
    LET base == IF tool_name \in DOMAIN tm THEN tm
                ELSE tm @@ (tool_name :> [count |-> 0, durations |-> <<>>])
    IN  [base EXCEPT ![tool_name] = [count |-> @.count + 1,
                                     durations |-> Append(@.durations, d)]]

\* An entry that keeps the metrics mapping of the call before.
agent_loop_enter_shared_metrics(question) ==
    /\ messages' = <<UserMessage(question)>>
    /\ tool_metrics' = tool_metrics
    /\ response' = NoResponse
    /\ nengine' = 0
    /\ ntool' = 0
    /\ response_text' = None
    /\ failure' = NoFailure
    /\ pc' = "engine"

\* messages = [{"role": "user", "content": question}]; the locals of a new call
agent_loop_enter(question) ==
    /\ messages' = <<UserMessage(question)>>
    /\ tool_metrics' = <<>>
    /\ response' = NoResponse
    /\ nengine' = 0
    /\ ntool' = 0
    /\ response_text' = None
    /\ failure' = NoFailure
    /\ pc' = "engine"

\* agent_loop called on its own with some question
agent_loop_begin ==
    /\ pc = "idle"
    /\ \E question \in Questions : agent_loop_enter(question)
    /\ UNCHANGED <<envVars, chanVars, evalVars>>

\* An engine call that is skipped every other time: the loop goes on with the
\* response it has.
engine_call_skipped ==
    /\ pc = "engine"
    /\ IF nengine = 0
       THEN /\ nengine' = 1
            /\ \E r \in engine :
                  /\ response' = r
                  /\ messages' = Append(messages, AssistantMessage(r.content))
       ELSE UNCHANGED <<nengine, response, messages>>
    /\ pc' = "responded"
    /\ UNCHANGED <<envVars, chanVars, evalVars, tool_metrics, ntool, response_text, failure>>

\* response = await asyncio.to_thread(client.messages.create, ...)
\* messages.append({"role": "assistant", "content": response.content})
engine_call ==
    /\ pc = "engine"
    /\ nengine' = nengine + 1
    /\ \/ \E r \in engine :
            /\ response' = r
            /\ messages' = Append(messages, AssistantMessage(r.content))
            /\ pc' = "responded"
            /\ failure' = failure
       \/ /\ pc' = "failed"
          /\ failure' = [from |-> "engine", exc |-> "APIError"]
          /\ UNCHANGED <<response, messages>>
    /\ UNCHANGED <<envVars, chanVars, evalVars, tool_metrics, ntool, response_text>>

\* One iteration of `while response.stop_reason == "tool_use"` up to the next
\* engine call: take the first tool_use block, call the tool, record the metric,
\* append the tool_result message.
tool_turn ==
    /\ pc = "responded"
    /\ response.stop_reason = "tool_use"
    /\ nengine <= MaxTurns
    /\ LET i == first_tool_use(response.content)
       IN  IF i = 0
           THEN /\ pc' = "failed"
                /\ failure' = [from |-> "response", exc |-> "RuntimeError"]
                /\ UNCHANGED <<chanVars, messages, tool_metrics, ntool>>
           ELSE LET tool_use == response.content[i]
                IN  /\ call_tool(tool_use.name, tool_use.input)
                    /\ ntool' = ntool + 1
                    /\ IF ret'.status = "raised" /\ ~Catches(ret'.exc)
                       THEN /\ pc' = "failed"
                            /\ failure' = [from |-> "tool", exc |-> ret'.exc]
                            /\ UNCHANGED <<messages, tool_metrics>>
                       ELSE /\ \E d \in Durations :
                                 tool_metrics' = record_metric(tool_metrics, tool_use.name, d)
                            /\ messages' = Append(messages, ToolResultMessage(tool_use.id,
                                  IF ret'.status = "raised"
                                  THEN error_text(tool_use.name, ret'.exc, ret'.val)
                                  ELSE success_text(ret'.val)))
                            /\ pc' = "engine"
                            /\ failure' = failure
    /\ UNCHANGED <<envVars, evalVars, response, nengine, response_text>>

\* next((block.text for block in response.content if hasattr(block, "text")), None)
first_text(content) ==
    IF \E i \in 1..Len(content) : content[i].type = "text"
    THEN Some(content[CHOOSE i \in 1..Len(content) :
                        /\ content[i].type = "text"
                        /\ \A j \in 1..(i - 1) : content[j].type # "text"].text)
    ELSE None

\* A return that does not look at the stop reason.
agent_loop_return_any_stop_reason ==
    /\ pc = "responded"
    /\ response_text' = first_text(response.content)
    /\ pc' = "done"
    /\ UNCHANGED <<envVars, chanVars, evalVars, messages, response, tool_metrics, nengine,
                   ntool, failure>>

\* the while condition is false: return response_text, tool_metrics
agent_loop_return ==
    /\ pc = "responded"
    /\ response.stop_reason # "tool_use"
    /\ response_text' = first_text(response.content)
    /\ pc' = "done"
    /\ UNCHANGED <<envVars, chanVars, evalVars, messages, response, tool_metrics, nengine,
                   ntool, failure>>

\* ------------------------------------------------ evaluation.py: evaluation
\* Text as the pieces that matter to tag extraction and trimming: tags, runs of
\* whitespace, other runs of characters.
Tokens(text) ==
    CASE text = "<summary>did X</summary><response>42</response>"
            -> <<"<summary>", "did X", "</summary>", "<response>", "42", "</response>">>
      [] text = "<response>1</response> <response> 42 </response>"
            -> <<"<response>", "1", "</response>", " ", "<response>", " ", "42", " ",
                 "</response>">>
      [] text = "<response></response>" -> <<"<response>", "</response>">>
      [] text = "<response>ABC</response>" -> <<"<response>", "ABC", "</response>">>
      [] text = "" -> <<>>
      [] OTHER -> <<text>>

Whitespace == {" ", "\n"}

\* "".join(pieces)
RECURSIVE Join(_)
Join(pieces) == IF pieces = <<>> THEN "" ELSE Head(pieces) \o Join(Tail(pieces))

\* str.strip() on the pieces of a text
RECURSIVE strip(_)
strip(pieces) ==
    IF pieces = <<>> THEN ""
    ELSE IF Head(pieces) \in Whitespace THEN strip(Tail(pieces))
    ELSE IF pieces[Len(pieces)] \in Whitespace THEN strip(SubSeq(pieces, 1, Len(pieces) - 1))
    ELSE Join(pieces)

\* position of the first piece equal to tok at or after from, 0 if there is none
IndexFrom(pieces, tok, from) ==
    IF \E i \in from..Len(pieces) : pieces[i] = tok
    THEN CHOOSE i \in from..Len(pieces) :
            pieces[i] = tok /\ \A j \in from..(i - 1) : pieces[j] # tok
    ELSE 0

\* re.findall(rf"<{tag}>(.*?)</{tag}>", text, re.DOTALL), scanning from piece `from`
RECURSIVE findall(_, _, _)
findall(pieces, tag, from) ==
    LET open == IndexFrom(pieces, "<" \o tag \o ">", from)
        close == IF open = 0 THEN 0 ELSE IndexFrom(pieces, "</" \o tag \o ">", open + 1)
    IN  IF open = 0 \/ close = 0 THEN <<>>
        ELSE <<SubSeq(pieces, open + 1, close - 1)>> \o findall(pieces, tag, close + 1)

\* An extraction that takes the first match.
extract_xml_content_first(text, tag) ==
    IF text.none THEN [raised |-> TRUE, v |-> None]
    ELSE LET matches == findall(Tokens(text.s), tag, 1)
         IN  [raised |-> FALSE,
              v |-> IF matches # <<>> THEN Some(strip(matches[1])) ELSE None]

\* extract_xml_content(text, tag); re.findall raises TypeError on text None
extract_xml_content(text, tag) ==
    IF text.none THEN [raised |-> TRUE, v |-> None]
    ELSE LET matches == findall(Tokens(text.s), tag, 1)
         IN  [raised |-> FALSE,
              v |-> IF matches # <<>> THEN Some(strip(matches[Len(matches)])) ELSE None]

\* The qa_pair elements an evaluation file may hold: question and answer text.
PairPool ==
    << [question |-> <<"What is 1 + 2?">>, answer |-> <<" ", "42", "\n">>],
       [question |-> <<" ", "What is 3 + 4?">>, answer |-> <<"7">>],
       [question |-> <<"Say nothing.">>, answer |-> <<>>],
       [question |-> <<"Spell it.">>, answer |-> <<"abc">>] >>

\* The evaluation files of a run: MaxTasks or fewer pairs, or not parseable at all.
EvalFiles ==
    { [ok |-> TRUE,
       pairs |-> [i \in 1..n |-> PairPool[((first + i - 2) % Len(PairPool)) + 1]]] :
          n \in 0..MaxTasks, first \in 1..Len(PairPool) }
      \cup {[ok |-> FALSE, pairs |-> <<>>]}
NoFile == [ok |-> FALSE, pairs |-> <<>>]

\* parse_evaluation_file(file_path)
parse_evaluation_file(file) ==
    IF file.ok
    THEN [i \in 1..Len(file.pairs) |->
            [question |-> strip(file.pairs[i].question), answer |-> strip(file.pairs[i].answer)]]
    ELSE <<>>

\* bool(response_value)
Truthy(o) == ~o.none /\ o.s # ""

\* int(response_value == qa_pair["answer"]) if response_value else 0
score_of(response_value, answer) ==
    IF Truthy(response_value) THEN (IF response_value.s = answer THEN 1 ELSE 0) ELSE 0

\* sum(len(metrics["durations"]) for metrics in tool_metrics.values())
RECURSIVE SumOver(_, _)
SumOver(f, keys) ==
    IF keys = {} THEN 0
    ELSE LET k == CHOOSE k \in keys : TRUE IN f[k] + SumOver(f, keys \ {k})
num_tool_calls_of(tm) == SumOver([k \in DOMAIN tm |-> Len(tm[k].durations)], DOMAIN tm)

\* time.time() - start_time of one task, in abstract units
TaskDurations == {2}

\* the dict evaluate_single_task returns
TaskResult(qa_pair, response_value, summary, tm, d) ==
    [question |-> qa_pair.question,
     expected |-> qa_pair.answer,
     actual |-> response_value,
     score |-> score_of(response_value, qa_pair.answer),
     total_duration |-> d,
     tool_calls |-> tm,
     num_tool_calls |-> num_tool_calls_of(tm),
     summary |-> summary]

\* An insert at the front of the results.
append_result_front(rs, r) == <<r>> \o rs

\* results.append(result)
append_result(rs, r) == Append(rs, r)

\* Fractions, as numerator and denominator.
Frac(n, d) == [n |-> n, d |-> d]

\* sum of field f over the results
RECURSIVE SumField(_, _)
SumField(rs, f) == IF rs = <<>> THEN 0 ELSE Head(rs)[f] + SumField(Tail(rs), f)

\* The fraction correct, not made a percentage.
accuracy_of_fraction(correct, n) == IF n # 0 THEN Frac(correct, n) ELSE Frac(0, 1)

\* (correct / len(results)) * 100 if results else 0
accuracy_of(correct, n) == IF n # 0 THEN Frac(correct * 100, n) ELSE Frac(0, 1)
\* sum(...) / len(results) if results else 0
average_of(total, n) == IF n # 0 THEN Frac(total, n) ELSE Frac(0, 1)

\* tool_caller.list_tools(), dispatched on the object's class
list_tools ==
    CASE kind = "StdioConnection" -> StdioConnection_list_tools
      [] kind = "ScriptBasedToolCaller" -> ScriptBasedToolCaller_list_tools
      [] kind = "ToolCaller" -> ToolCaller_list_tools
      [] kind = "DirectConnection" -> DirectConnection_list_tools
      [] kind = "DirectToolCaller" -> DirectToolCaller_list_tools

\* main: if hasattr(tool_caller, "start"): tool_caller.start()
main_start ==
    /\ pc = "idle"
    /\ IF kind = "ScriptBasedToolCaller"
       THEN /\ ScriptBasedToolCaller_start
            /\ IF ret'.status = "raised"
               THEN pc' = "failed" /\ failure' = [from |-> "start", exc |-> ret'.exc]
               ELSE pc' = "started" /\ failure' = failure
       ELSE /\ pc' = "started"
            /\ failure' = failure
            /\ UNCHANGED chanVars
    /\ UNCHANGED <<envVars, evalVars, messages, response, tool_metrics, nengine, ntool,
                   response_text>>

\* run_evaluation up to the for loop: tools = tool_caller.list_tools();
\* qa_pairs = parse_evaluation_file(eval_path); results = []
run_evaluation_begin ==
    /\ pc = "started"
    /\ task = 0
    /\ list_tools
    /\ IF ret'.status = "raised"
       THEN /\ pc' = "failed"
            /\ failure' = [from |-> "list_tools", exc |-> ret'.exc]
            /\ UNCHANGED <<qa_pairs, task, results>>
       ELSE /\ qa_pairs' = parse_evaluation_file(eval_file)
            /\ results' = <<>>
            /\ task' = 1
            /\ pc' = "task"
            /\ failure' = failure
    /\ UNCHANGED <<envVars, messages, response, tool_metrics, nengine, ntool, response_text,
                   report>>

\* for i, qa_pair in enumerate(qa_pairs): evaluate_single_task calls agent_loop
evaluate_single_task_begin ==
    /\ pc = "task"
    /\ task <= Len(qa_pairs)
    /\ agent_loop_enter(qa_pairs[task].question)
    /\ UNCHANGED <<envVars, chanVars, evalVars>>

\* evaluate_single_task after agent_loop returned, and results.append(result)
evaluate_single_task_end ==
    /\ pc = "done"
    /\ task >= 1
    /\ LET response_value == extract_xml_content(response_text, "response")
           summary == extract_xml_content(response_text, "summary")
       IN  IF response_value.raised
           THEN /\ pc' = "failed"
                /\ failure' = [from |-> "extract_xml_content", exc |-> "TypeError"]
                /\ UNCHANGED <<task, results>>
           ELSE /\ \E d \in TaskDurations :
                     results' = append_result(results,
                        TaskResult(qa_pairs[task], response_value.v, summary.v, tool_metrics, d))
                /\ task' = task + 1
                /\ pc' = "task"
                /\ failure' = failure
    /\ UNCHANGED <<envVars, chanVars, messages, response, tool_metrics, nengine, ntool,
                   response_text, qa_pairs, report>>

\* run_evaluation after the for loop: the figures of the report
run_evaluation_report ==
    /\ pc = "task"
    /\ task > Len(qa_pairs)
    /\ LET correct == SumField(results, "score")
           total_tool_calls == SumField(results, "num_tool_calls")
       IN  report' = [built |-> TRUE,
                      correct |-> correct,
                      total |-> Len(results),
                      accuracy |-> accuracy_of(correct, Len(results)),
                      average_duration_s |->
                          average_of(SumField(results, "total_duration"), Len(results)),
                      average_tool_calls |-> average_of(total_tool_calls, Len(results)),
                      total_tool_calls |-> total_tool_calls]
    /\ pc' = "reported"
    /\ UNCHANGED <<envVars, chanVars, messages, response, tool_metrics, nengine, ntool,
                   response_text, failure, qa_pairs, task, results>>

\* main with the stop at the end of the try block: skipped when the run failed.
main_finally_on_success ==
    /\ pc \in {"failed", "reported"}
    /\ IF kind = "ScriptBasedToolCaller" /\ pc = "reported"
       THEN ScriptBasedToolCaller_stop
       ELSE UNCHANGED chanVars
    /\ pc' = "exited"
    /\ UNCHANGED <<envVars, evalVars, messages, response, tool_metrics, nengine, ntool,
                   response_text, failure>>

\* main: finally: if hasattr(tool_caller, "stop"): tool_caller.stop()
main_finally ==
    /\ pc \in {"failed", "reported"}
    /\ IF kind = "ScriptBasedToolCaller"
       THEN ScriptBasedToolCaller_stop
       ELSE UNCHANGED chanVars
    /\ pc' = "exited"
    /\ UNCHANGED <<envVars, evalVars, messages, response, tool_metrics, nengine, ntool,
                   response_text, failure>>

\* ------------------------------------------------------------ the factories
\* The transport tags, commands and module paths a caller may pass.
Transports == {"stdio", "STDIO", "process", "direct", "mcp", "sse", "http", "grpc"}
Commands == {None, Some(""), Some("server.py")}
ModulePaths == {None, Some("media_poster.server")}

\* transport.lower()
lower(transport) == IF transport = "STDIO" THEN "stdio" ELSE transport

\* What a factory gives: the class of the object built, or the ValueError raised.
Built(class) == [raised |-> FALSE, class |-> class, msg |-> ""]
ValueError(msg) == [raised |-> TRUE, class |-> "", msg |-> msg]

\* connections.py create_connection(transport, command, ..., module_path)
create_connection(transport, command, module_path) ==
    LET t == lower(transport)
    IN  IF t = "stdio"
        THEN IF ~Truthy(command)
             THEN ValueError("Command is required for stdio transport")
             ELSE Built("StdioConnection")
        ELSE IF t = "direct"
        THEN IF ~Truthy(module_path)
             THEN ValueError("Module path is required for direct transport")
             ELSE Built("DirectConnection")
        ELSE IF t \in {"mcp", "sse", "http"}
        THEN ValueError("Transport requires MCP protocol")
        ELSE ValueError("Unsupported transport type")

\* server_runner.py create_server_runner(command, ..., module_path, server_instance)
create_server_runner(command, module_path) ==
    IF Truthy(module_path) THEN Built("server_runner.DirectToolCaller")
    ELSE IF Truthy(command) THEN Built("ServerRunner")
    ELSE ValueError("Either 'command' or 'module_path' must be provided")

\* The keyword arguments of a factory call, as recorded in its outcome.
Kwargs(command, module_path) ==
    JDict({<<"command", JStr(command.s)>> : x \in {c \in {command} : ~c.none}}
          \cup {<<"module_path", JStr(module_path.s)>> : x \in {m \in {module_path} : ~m.none}})

\* A factory that starts what it builds: the child is spawned, or the module
\* imported, by the constructor.
factory_call_eager(factory, transport, command, module_path, instance, built) ==
    /\ kind = "none"
    /\ ret = NoOutcome
    /\ IF built.raised
       THEN /\ ret' = Raised(factory, transport, Kwargs(command, module_path),
                             "ValueError", JStr(built.msg))
            /\ UNCHANGED <<kind, server_instance, procs, _process, _module, nimports>>
       ELSE /\ ret' = Returned(factory, transport, Kwargs(command, module_path),
                               JStr(built.class))
            /\ kind' = built.class
            /\ server_instance' = instance
            /\ IF built.class \in {"StdioConnection", "ServerRunner"}
               THEN /\ procs' = Append(procs, "running")
                    /\ _process' = Len(procs) + 1
                    /\ UNCHANGED <<_module, nimports>>
               ELSE /\ _module' = TRUE
                    /\ nimports' = nimports + 1
                    /\ UNCHANGED <<procs, _process>>
    /\ io' = <<>>
    /\ UNCHANGED <<pipe, nwritten, nread, nrun>>
    /\ UNCHANGED <<server, module, engine, eval_file, agentVars, evalVars>>

\* A factory call and what it leaves: the object built with the fields its
\* __init__ assigns (self._process = None, self._module = None, self.server), or
\* the ValueError; nothing is spawned and nothing is imported.
factory_call(factory, transport, command, module_path, instance, built) ==
    /\ kind = "none"
    /\ ret = NoOutcome
    /\ IF built.raised
       THEN /\ ret' = Raised(factory, transport, Kwargs(command, module_path),
                             "ValueError", JStr(built.msg))
            /\ UNCHANGED <<kind, server_instance>>
       ELSE /\ ret' = Returned(factory, transport, Kwargs(command, module_path),
                               JStr(built.class))
            /\ kind' = built.class
            /\ server_instance' = instance
    /\ io' = <<>>
    /\ UNCHANGED <<procs, _process, pipe, nwritten, nread, nrun, _module, nimports>>
    /\ UNCHANGED <<server, module, engine, eval_file, agentVars, evalVars>>

\* create_connection builds DirectConnection(module_path=module_path): no server_instance.
create_connection_call ==
    \E transport \in Transports, command \in Commands, module_path \in ModulePaths :
        factory_call("create_connection", transport, command, module_path, NoServer,
                     create_connection(transport, command, module_path))

create_server_runner_call ==
    \E command \in Commands, module_path \in ModulePaths, instance \in ServerInstances :
        factory_call("create_server_runner", "", command, module_path, instance,
                     create_server_runner(command, module_path))

\* ------------------------------------------------------------ specification
ProcessKinds == {"StdioConnection", "ScriptBasedToolCaller", "ToolCaller", "ServerRunner"}
ModuleKinds == {"DirectConnection", "DirectToolCaller", "server_runner.DirectToolCaller"}
\* The in-process classes whose constructor takes a server_instance.
InstanceKinds == {"DirectConnection", "server_runner.DirectToolCaller"}

\* The objects as constructed; the engine and the evaluation file are left open.
Constructed ==
    /\ \/ kind \in ProcessKinds /\ server \in Servers /\ module = NoModule
       \/ kind \in ModuleKinds /\ server = {} /\ module \in ModuleShapes
    /\ IF kind \in InstanceKinds
       THEN server_instance \in ServerInstances
       ELSE server_instance = NoServer
    /\ procs = <<>>
    /\ _process = 0
    /\ pipe = NewPipe
    /\ nwritten = 0
    /\ nread = 0
    /\ nrun = 0
    /\ _module = FALSE
    /\ nimports = 0
    /\ io = <<>>
    /\ ret = NoOutcome
    /\ pc = "idle"
    /\ messages = <<>>
    /\ response = NoResponse
    /\ tool_metrics = <<>>
    /\ nengine = 0
    /\ failure = NoFailure
    /\ ntool = 0
    /\ response_text = None
    /\ qa_pairs = <<>>
    /\ task = 0
    /\ results = <<>>
    /\ report = NoReport

\* A channel object on its own: no engine, no evaluation file.
Init == Constructed /\ engine = {} /\ eval_file = NoFile

\* A client of the channel object calls its methods in any order, while the
\* child may exit at any time.
Next ==
    \/ StdioConnection_start /\ ClientFrame
    \/ StdioConnection_stop /\ ClientFrame
    \/ StdioConnection_list_tools /\ ClientFrame
    \/ \E n \in ToolNames, a \in ToolArgs : StdioConnection_call_tool(n, a) /\ ClientFrame
    \/ ScriptBasedToolCaller_start /\ ClientFrame
    \/ ScriptBasedToolCaller_stop /\ ClientFrame
    \/ ScriptBasedToolCaller_list_tools /\ ClientFrame
    \/ \E n \in ToolNames, a \in ToolArgs : ScriptBasedToolCaller_call_tool(n, a) /\ ClientFrame
    \/ ToolCaller_start /\ ClientFrame
    \/ ToolCaller_stop /\ ClientFrame
    \/ ToolCaller_list_tools /\ ClientFrame
    \/ \E n \in ToolNames, a \in ToolArgs : ToolCaller_call_tool(n, a) /\ ClientFrame
    \/ ServerRunner_run_enter /\ ClientFrame
    \/ ServerRunner_run_exit /\ ClientFrame
    \/ ServerRunner_get_tools /\ ClientFrame
    \/ \E n \in ToolNames, a \in ToolArgs : ServerRunner_send_tool_call(n, a) /\ ClientFrame
    \/ DirectConnection_list_tools /\ ClientFrame
    \/ \E n \in ToolNames, a \in ToolArgs : DirectConnection_call_tool(n, a) /\ ClientFrame
    \/ DirectToolCaller_list_tools /\ ClientFrame
    \/ \E n \in ToolNames, a \in ToolArgs : DirectToolCaller_call_tool(n, a) /\ ClientFrame
    \/ RunnerDirectToolCaller_get_tools /\ ClientFrame
    \/ \E n \in ToolNames, a \in ToolArgs :
         RunnerDirectToolCaller_call_tool(n, a) /\ ClientFrame
    \/ ChildExit

Spec == Init /\ [][Next]_vars

\* main() of evaluation.py starts the tool caller where it has a start(), then the
\* agent loop runs one task against it; the child may exit at any time.  The tool
\* caller is any object with the call_tool and list_tools methods that
\* run_evaluation uses (ServerRunner and server_runner's DirectToolCaller lack one).
AgentInit ==
    /\ Constructed
    /\ kind \notin {"ServerRunner", "server_runner.DirectToolCaller"}
    /\ engine \in Engines
    /\ eval_file = NoFile

AgentNext ==
    \/ ScriptBasedToolCaller_start /\ pc = "idle" /\ _process = 0 /\ ClientFrame
    \/ ToolCaller_start /\ pc = "idle" /\ _process = 0 /\ ClientFrame
    \/ ChildExit
    \/ agent_loop_begin
    \/ engine_call
    \/ tool_turn
    \/ agent_loop_return

AgentSpec == AgentInit /\ [][AgentNext]_vars

\* The coroutine goes on whenever the call it awaits has returned.
AgentLive ==
    /\ AgentSpec
    /\ WF_vars(engine_call) /\ WF_vars(tool_turn) /\ WF_vars(agent_loop_return)

\* main() of evaluation.py: the tool caller it builds (--module or --command),
\* started, run_evaluation over the evaluation file, and the stop in finally.
MainKinds == {"DirectToolCaller", "ScriptBasedToolCaller"}

EvalInit ==
    Constructed /\ kind \in MainKinds /\ engine \in Engines /\ eval_file \in EvalFiles

EvalNext ==
    \/ main_start
    \/ run_evaluation_begin
    \/ evaluate_single_task_begin
    \/ engine_call
    \/ tool_turn
    \/ agent_loop_return
    \/ evaluate_single_task_end
    \/ run_evaluation_report
    \/ main_finally

EvalSpec == EvalInit /\ [][EvalNext]_vars

\* A caller of the factories: it asks for an object, then uses the one it got.
FactoryInit ==
    /\ kind = "none"
    /\ server \in Servers
    /\ module \in ModuleShapes
    /\ server_instance = NoServer
    /\ procs = <<>>
    /\ _process = 0
    /\ pipe = NewPipe
    /\ nwritten = 0
    /\ nread = 0
    /\ nrun = 0
    /\ _module = FALSE
    /\ nimports = 0
    /\ io = <<>>
    /\ ret = NoOutcome
    /\ pc = "idle"
    /\ messages = <<>>
    /\ response = NoResponse
    /\ tool_metrics = <<>>
    /\ nengine = 0
    /\ failure = NoFailure
    /\ ntool = 0
    /\ response_text = None
    /\ qa_pairs = <<>>
    /\ task = 0
    /\ results = <<>>
    /\ report = NoReport
    /\ engine = {}
    /\ eval_file = NoFile

FactoryNext ==
    \/ create_connection_call
    \/ create_server_runner_call
    \/ StdioConnection_list_tools /\ ClientFrame
    \/ StdioConnection_stop /\ ClientFrame
    \/ DirectConnection_list_tools /\ ClientFrame
    \/ ServerRunner_run_enter /\ ClientFrame
    \/ ServerRunner_run_exit /\ ClientFrame
    \/ RunnerDirectToolCaller_get_tools /\ ClientFrame
    \/ ChildExit

FactorySpec == FactoryInit /\ [][FactoryNext]_vars

\* ------------------------------------------------------------------ claims
Last(q) == q[Len(q)]
LiveChildren == {i \in 1..Len(procs) : procs[i] = "running"}
\* The stream operations of the last call, without the spawn that may precede them.
StreamOps == SelectSeq(io, LAMBDA e : e.ev # "Popen")
ReadLineDone == io # <<>> /\ Last(io).ev = "readline"
ToolResults == Cardinality({i \in 1..Len(messages) : messages[i].type = "tool_result"})

\* C1 (as claimed): on the process-backed channels with a start operation
\* (StdioConnection, ScriptBasedToolCaller, ToolCaller) at most one child is alive
\* at any time, a start on a live child being a no-op.
C1_AtMostOneLiveChild ==
    kind \in {"StdioConnection", "ScriptBasedToolCaller", "ToolCaller"}
        => Cardinality(LiveChildren) <= 1

\* C2: a tool invocation that raises inside the agent loop never leaves the loop:
\* the failure text becomes the tool_result message appended last, the loop goes on
\* to the next engine call, and every answered turn was followed by an engine call.
C2_ToolErrorRecoveredLocally ==
    /\ failure.from # "tool"
    /\ (pc = "engine" /\ ret.op = "call_tool" /\ ret.status = "raised")
          => /\ Last(messages).type = "tool_result"
             /\ Last(messages).role = "user"
             /\ Last(messages).text = error_text(ret.name, ret.exc, ret.val)
             /\ ENABLED engine_call
    /\ (pc \in {"responded", "done"}) => nengine = ToolResults + 1

C2_Witness ==
    /\ pc = "responded"
    /\ ret.op = "call_tool" /\ ret.status = "raised" /\ ret.exc = "ValueError"
    /\ messages[Len(messages) - 1].type = "tool_result"
    /\ messages[Len(messages) - 1].text =
          "Error executing tool nope: Tool not found\nTraceback (most recent call last):\nValueError: Tool not found\n"

\* C3 (as claimed): a protocol-level failure of a tool invocation inside the agent
\* loop (empty or undecodable response line, dead channel) ends the task: the
\* failure leaves the loop and no tool_result is made of it.
C3_ProtocolFailureIsFatal ==
    (ret.op = "call_tool" /\ ret.status = "raised"
        /\ ret.exc \in {"JSONDecodeError", "BrokenPipeError"})
      => pc = "failed" /\ failure.from = "tool"

\* C4 (as claimed): a response that is a mapping with the key "error" makes
\* call_tool raise with that key's value as message, on every process-backed class
\* and on the in-process classes when the tool returns such a mapping.
C4_ErrorMappingRaises ==
    /\ (ret.op = "call_tool" /\ ReadLineDone /\ Last(io).data = ErrorLine)
          => ret.status = "raised" /\ ret.val = JStr("bad args")
    /\ (ret.op = "call_tool" /\ kind \in ModuleKinds /\ ret.status = "returned")
          => ~(ret.val.t = "dict" /\ HasKey(ret.val, "error"))

\* C5 (as claimed): once stop() has returned, on StdioConnection,
\* ScriptBasedToolCaller and ToolCaller alike, the channel holds no handle, no child
\* of the channel that was alive on entry is still alive, and a child found exited
\* on entry was sent no signal.
C5_StopPostcondition ==
    (ret.op = "stop" /\ ret.status = "returned"
        /\ kind \in {"StdioConnection", "ScriptBasedToolCaller", "ToolCaller"})
      => /\ _process = 0
         /\ LiveChildren = {}
         /\ (io # <<>> /\ io[1].data = "exited") => Len(io) = 1

\* C6: in stop() on a live child terminate() comes first, then the wait of 5
\* seconds; kill() is sent only after that wait timed out, never when the child
\* exited within it, and is followed by a wait for exit and a normal return.
C6_StopEscalationOrder ==
    (ret.op = "stop" /\ io # <<>> /\ io[1].data = "running")
      => /\ Len(io) >= 3
         /\ io[2].ev = "terminate"
         /\ io[3].ev = "wait" /\ io[3].idx = 5
         /\ \A e \in 1..Len(io) :
               io[e].ev = "kill"
                  => /\ e = 4
                     /\ io[3].data = "TimeoutExpired"
                     /\ Len(io) = 5 /\ io[5].ev = "wait" /\ io[5].data = "exited"
                     /\ ret.status = "returned"
                     /\ procs[io[e].idx] = "exited"
         /\ io[3].data = "exited" => Len(io) = 3

C6_Witness ==
    /\ ret.op = "stop" /\ ret.status = "returned"
    /\ Len(io) = 5 /\ io[4].ev = "kill" /\ io[3].data = "TimeoutExpired"

\* The request line json.dumps produces for each tool name and argument mapping.
C7_ExpectedLine(name, args) ==
    CASE name = "add" /\ args = Args1 -> "{\"tool\": \"add\", \"args\": {\"a\": 1, \"b\": 2}}\n"
      [] name = "add" /\ args = Args0 -> "{\"tool\": \"add\", \"args\": {}}\n"
      [] name = "nope" /\ args = Args1 -> "{\"tool\": \"nope\", \"args\": {\"a\": 1, \"b\": 2}}\n"
      [] name = "nope" /\ args = Args0 -> "{\"tool\": \"nope\", \"args\": {}}\n"

\* C7: a call_tool on a process-backed class that touches the streams writes the
\* one line {"tool": name, "args": args}\n first, flushes it, and then reads one
\* line; a call that returned a value did all three, once each.
C7_OneRequestLineBeforeRead ==
    (ret.op = "call_tool" /\ kind \in ProcessKinds)
      => /\ StreamOps # <<>>
            => /\ StreamOps[1].ev = "write"
               /\ StreamOps[1].data = C7_ExpectedLine(ret.name, ret.args)
               /\ Len(StreamOps) \in {2, 3}
               /\ StreamOps[2].ev \in {"flush", "flush_error"}
               /\ StreamOps[2].ev = "flush"
                     <=> (Len(StreamOps) = 3 /\ StreamOps[3].ev = "readline")
         /\ ret.status = "returned" => Len(StreamOps) = 3
         /\ ret.exc = "JSONDecodeError" => Len(StreamOps) = 3

C7_Witness ==
    /\ ret.op = "call_tool" /\ ret.status = "returned"
    /\ ret.name = "add" /\ ret.args = Args1
    /\ Len(StreamOps) = 3
    /\ StreamOps[1].data = "{\"tool\": \"add\", \"args\": {\"a\": 1, \"b\": 2}}\n"

\* C8: on one channel as many lines have been read as request lines written, and
\* the k-th read from a child returns the k-th line that child printed (the empty
\* end-of-file line if it printed fewer and exited); the value handled is that line's.
C8_RequestsAndResponsesPaired ==
    /\ nread = nwritten
    /\ ReadLineDone
          => /\ \/ Last(io).idx = pipe.nreads
                \/ /\ Last(io).idx = 0
                   /\ Last(io).data = ""
                   /\ pipe.nemit < pipe.nreads
             /\ ret.status = "returned" => ret.val = json_loads(Last(io).data).v

C8_Witness ==
    /\ nread = 2 /\ nwritten = 2
    /\ ReadLineDone /\ Last(io).idx = 2 /\ Last(io).data = GarbageLine
    /\ ret.exc = "JSONDecodeError"

\* C9: list_tools and call_tool on a process-backed class raise the decode error,
\* and return nothing, when the line read is empty or is not JSON.
C9_DecodeErrorOnBadLine ==
    (ret.op \in {"list_tools", "call_tool"} /\ ReadLineDone
        /\ Last(io).data \in {"", "not json\n"})
      => ret.status = "raised" /\ ret.exc = "JSONDecodeError"

C9_Witness ==
    /\ ret.op = "list_tools" /\ ReadLineDone /\ Last(io).data = ""
    /\ ret.status = "raised"

\* C10: call_tool returns the parsed value unchanged whenever it is not a mapping
\* with the key "error"; {"result": 3} answered to add(a=1, b=2) comes back as is.
C10_OtherValuesReturnedVerbatim ==
    (ret.op = "call_tool" /\ ReadLineDone /\ json_loads(Last(io).data).ok
        /\ ~HasKey(json_loads(Last(io).data).v, "error"))
      => /\ ret.status = "returned"
         /\ ret.val = json_loads(Last(io).data).v
         /\ Last(io).data = "{\"result\": 3}\n" => ret.val = JDict({<<"result", JInt("3")>>})
         /\ Last(io).data = "null\n" => ret.val.t = "null"
         /\ Last(io).data = "true\n" => ret.val.t = "bool"
         /\ Last(io).data = "3\n" => ret.val.t = "int"
         /\ Last(io).data = "\"ok\"\n" => ret.val.t = "str"
         /\ Last(io).data = "[{\"name\": \"add\"}]\n" => ret.val.t = "list"

C10_Witness ==
    /\ kind = "StdioConnection"
    /\ ret.op = "call_tool" /\ ret.name = "add" /\ ret.args = Args1
    /\ ReadLineDone /\ Last(io).data = "{\"result\": 3}\n"
    /\ ret.status = "returned" /\ ret.val = ResultDict

\* sum of the counts of a metrics mapping
SumCounts(tm) == SumOver([k \in DOMAIN tm |-> tm[k].count], DOMAIN tm)

\* C11: within one task engine calls and tool invocations alternate: a tool
\* invocation is made only on an engine response with stop reason tool_use that is
\* the last message, and leaves the loop waiting for the engine; from there nothing
\* but an engine call moves the loop; the loop returns only from an engine response;
\* engine calls number the tool invocations while awaiting the engine, and one more
\* once the engine has answered and at Done.
C11_EngineAndToolAlternate ==
    /\ [](/\ pc = "engine" => nengine = ntool
          /\ pc \in {"responded", "done"} => nengine = ntool + 1)
    /\ [][/\ ntool' # ntool /\ pc # "idle"
             => /\ pc = "responded" /\ response.stop_reason = "tool_use"
                /\ Last(messages) = AssistantMessage(response.content)
                /\ ntool' = ntool + 1 /\ nengine' = nengine
                /\ pc' = "engine"
          /\ nengine' # nengine /\ pc # "idle"
             => pc = "engine" /\ nengine' = nengine + 1 /\ ntool' = ntool
          /\ pc = "engine" /\ pc' # "engine" => nengine' = nengine + 1
          /\ pc' = "done" /\ pc # "done"
             => pc = "responded" /\ response.stop_reason # "tool_use"]_vars

C11_Witness ==
    /\ pc = "done" /\ nengine = 3 /\ ntool = 2
    /\ Len(messages) = 6

\* the identifier of the first tool_use block of each engine response
C12_FirstBlock(r) ==
    CASE r = ToolUseTwo -> [id |-> "toolu_1", name |-> "add", input |-> Args1]
      [] r = ToolUseNope -> [id |-> "toolu_3", name |-> "nope", input |-> Args0]
      [] OTHER -> [id |-> "", name |-> "", input |-> JNull]

\* C12: a turn on a tool_use response makes one tool invocation, that of the first
\* tool_use block of the response, and appends one tool_result message, carrying
\* that block's identifier, right after the response's assistant message.
C12_FirstToolUseBlockOnly ==
    /\ ToolResults = ntool
    /\ (pc = "engine" /\ ntool > 0)
          => /\ ntool = nengine
             /\ response.stop_reason = "tool_use"
             /\ messages[Len(messages) - 1] = AssistantMessage(response.content)
             /\ Last(messages).type = "tool_result"
             /\ Last(messages).tool_use_id = C12_FirstBlock(response).id
             /\ ret.op = "call_tool"
             /\ ret.name = C12_FirstBlock(response).name
             /\ ret.args = C12_FirstBlock(response).input
             /\ SumCounts(tool_metrics) = ntool

C12_Witness ==
    /\ pc = "engine" /\ response = ToolUseTwo
    /\ Last(messages).tool_use_id = "toolu_1"
    /\ ret.name = "add" /\ ret.status = "returned"

\* C13: the loop is Done only on an engine response whose stop reason is not
\* tool_use, which is then the last message, its first text the text returned and
\* the metrics those of all the invocations made; on such a response the loop can
\* only return, and does; on a tool_use response it cannot return and, whatever the
\* number of turns made (up to MaxTurns here), goes on to the tool.
C13_DoneAtFirstNonToolUse ==
    /\ [](/\ pc = "done"
             => /\ response.stop_reason # "tool_use"
                /\ Last(messages) = AssistantMessage(response.content)
                /\ nengine = ntool + 1
                /\ SumCounts(tool_metrics) = ntool
                /\ response.content = <<>> => response_text = None
                /\ response.content # <<>> => response_text = Some(response.content[1].text)
          /\ (pc = "responded" /\ response.stop_reason # "tool_use")
             => ENABLED agent_loop_return /\ ~ENABLED tool_turn
          /\ (pc = "responded" /\ response.stop_reason = "tool_use")
             => /\ ~ENABLED agent_loop_return
                /\ nengine <= MaxTurns => ENABLED tool_turn)
    /\ (pc = "responded" /\ response.stop_reason # "tool_use") ~> (pc = "done")

C13_Witness ==
    /\ pc = "done" /\ ntool = 2
    /\ response_text = Some("<summary>did X</summary><response>42</response>")
    /\ "add" \in DOMAIN tool_metrics /\ tool_metrics["add"].count = 2

\* C14: at every point of a task each tool's count is the length of its
\* durations, the counts add up to the invocations attempted so far in the task,
\* failed ones included, and a TaskResult's num_tool_calls is that sum for its task.
C14_ToolMetricsCounts ==
    /\ \A k \in DOMAIN tool_metrics :
          /\ tool_metrics[k].count = Len(tool_metrics[k].durations)
          /\ tool_metrics[k].count >= 1
    /\ SumCounts(tool_metrics) = ntool
    /\ \A i \in 1..Len(results) :
          results[i].num_tool_calls = SumCounts(results[i].tool_calls)
    /\ (pc = "task" /\ results # <<>>) => Last(results).num_tool_calls = ntool

C14_Witness ==
    /\ pc = "task" /\ results # <<>>
    /\ Last(results).num_tool_calls = 2
    /\ ret.op = "call_tool" /\ ret.status = "raised"
    /\ DOMAIN tool_metrics = {"nope"} /\ tool_metrics["nope"].count = 2

\* C15: within a task every step leaves the messages it found in place and only
\* adds at the end; the first message is the user message of the question, roles
\* alternate user, assistant, with every later user message a tool_result, and the
\* last message at Done is an assistant message.
C15_ConversationAppendOnly ==
    /\ [](messages # <<>>
             => /\ messages[1].role = "user" /\ messages[1].type = "text"
                /\ messages[1].text \in Questions
                /\ \A i \in 1..Len(messages) :
                      /\ messages[i].role = IF i % 2 = 1 THEN "user" ELSE "assistant"
                      /\ (i % 2 = 1 /\ i > 1) => messages[i].type = "tool_result"
                      /\ i % 2 = 0 => messages[i].type = "blocks"
                /\ pc = "done" => Last(messages).role = "assistant")
    /\ [][pc # "idle"
             => /\ Len(messages') >= Len(messages)
                /\ SubSeq(messages', 1, Len(messages)) = messages]_vars

C15_Witness ==
    /\ pc = "done" /\ Len(messages) = 6
    /\ messages[3].type = "tool_result" /\ messages[5].type = "tool_result"
    /\ messages[6].role = "assistant"

\* C16: every task of a run starts with an empty metrics mapping and a
\* conversation of its own question only; during the task and in its TaskResult
\* the metrics count the invocations of this task's conversation and nothing else.
C16_PerTaskIsolation ==
    /\ (pc = "engine" /\ nengine = 0 /\ task >= 1)
          => /\ messages = <<UserMessage(qa_pairs[task].question)>>
             /\ tool_metrics = <<>>
    /\ (pc \in {"engine", "responded", "done"} /\ task >= 1)
          => /\ messages[1] = UserMessage(qa_pairs[task].question)
             /\ \A i \in 2..Len(messages) : messages[i].type # "text"
             /\ SumCounts(tool_metrics) = ToolResults
    /\ (pc = "task" /\ results # <<>>)
          => /\ Last(results).tool_calls = tool_metrics
             /\ Last(results).question = messages[1].text
             /\ Last(results).num_tool_calls = ToolResults

C16_Witness ==
    /\ task = 2 /\ pc = "engine" /\ nengine = 0
    /\ Len(results) = 1 /\ results[1].num_tool_calls = 2
    /\ tool_metrics = <<>>
    /\ messages[1].text # results[1].question

\* C17 (as claimed): the score of every TaskResult is 0 or 1, and is 1 exactly
\* when the extracted response is not null and equals the expected answer.
C17_ScoreIffEqual ==
    \A i \in 1..Len(results) :
        /\ results[i].score \in {0, 1}
        /\ results[i].score = 1
              <=> (~results[i].actual.none /\ results[i].actual.s = results[i].expected)

\* C18: the value extracted for a tag is the trimmed content of the last
\* occurrence of the tag pair, and null (not the empty string) when the pair is
\* absent; "<summary>did X</summary><response>42</response>" gives "did X" and "42".
C18_LastOccurrenceOrNone ==
    (pc = "task" /\ results # <<>>)
      => LET r == Last(results)
         IN  /\ response_text = Some("<summary>did X</summary><response>42</response>")
                   => r.summary = Some("did X") /\ r.actual = Some("42")
             /\ response_text = Some("<response>1</response> <response> 42 </response>")
                   => r.actual = Some("42") /\ r.summary = None
             /\ response_text = Some("I could not find it.")
                   => r.actual = None /\ r.summary = None /\ r.actual # Some("")
             /\ response_text = Some("<response></response>")
                   => r.actual = Some("") /\ r.summary = None
             /\ response_text = Some("<response>ABC</response>")
                   => r.actual = Some("ABC") /\ r.summary = None

C18_Witness ==
    /\ pc = "task" /\ results # <<>>
    /\ response_text = Some("<response>1</response> <response> 42 </response>")
    /\ Last(results).actual = Some("42")

\* number of results with score 1
C19_Correct == Cardinality({i \in 1..Len(results) : results[i].score = 1})

\* C19: over N results with C of score 1 the accuracy is 100 * C / N, and 0 when
\* N = 0; the averages of duration and of tool calls are 0 when N = 0; 0 <= C <= N.
C19_Accuracy ==
    report.built
      => LET N == Len(results)
             C == C19_Correct
         IN  /\ report.total = N /\ report.correct = C
             /\ 0 <= C /\ C <= N
             /\ N > 0 => report.accuracy.n * N = 100 * C * report.accuracy.d
             /\ N > 0 => report.accuracy.d # 0
             /\ (N = 2 /\ C = 1) => report.accuracy.n = 50 * report.accuracy.d
             /\ N = 0 => /\ report.accuracy.n = 0 /\ report.accuracy.d # 0
                         /\ report.average_duration_s.n = 0
                         /\ report.average_duration_s.d # 0
                         /\ report.average_tool_calls.n = 0
                         /\ report.average_tool_calls.d # 0

C19_Witness ==
    /\ report.built /\ Len(results) = 2
    /\ results[1].expected = "42" /\ results[1].actual = Some("42")
    /\ results[2].expected = "7" /\ results[2].actual = Some("42")
    /\ report.accuracy.n = 50 * report.accuracy.d

\* C20: tasks run one at a time in the order of the file: the agent loop of task
\* i runs only while exactly i - 1 TaskResults exist, the i-th TaskResult is that of
\* the i-th pair, and a finished run has one TaskResult for each pair.
C20_TasksInInputOrder ==
    /\ (pc \in {"engine", "responded", "done"})
          => /\ task \in 1..Len(qa_pairs)
             /\ Len(results) = task - 1
             /\ messages[1].text = qa_pairs[task].question
    /\ Len(results) <= Len(qa_pairs)
    /\ \A i \in 1..Len(results) :
          /\ results[i].question = qa_pairs[i].question
          /\ results[i].expected = qa_pairs[i].answer
    /\ report.built => Len(results) = Len(qa_pairs)

C20_Witness ==
    /\ report.built /\ Len(results) = 2 /\ Len(qa_pairs) = 2
    /\ results[1].question = "What is 1 + 2?" /\ results[1].expected = "42"
    /\ results[2].question = "What is 3 + 4?" /\ results[2].expected = "7"

\* Whether a factory call was given a non-empty keyword argument.
Given(args, key) == HasKey(args, key) /\ GetItem(args, key).s # ""

\* C21 (as claimed): create_connection yields a process-backed object for the tags
\* "stdio" and "process" (a command being given), an in-process object for the tag
\* "direct" (a module path being given), and a configuration error, with no object
\* of either kind, for every other tag; tags compared without regard to case.
C21_FactorySelectsBackend ==
    ret.op = "create_connection"
        => /\ (lower(ret.name) \in {"stdio", "process"} /\ Given(ret.args, "command"))
                 => (ret.status = "returned" /\ kind \in ProcessKinds)
           /\ (lower(ret.name) = "direct" /\ Given(ret.args, "module_path"))
                 => (ret.status = "returned" /\ kind \in ModuleKinds)
           /\ lower(ret.name) \notin {"stdio", "process", "direct"}
                 => (ret.status = "raised" /\ ret.exc = "ValueError" /\ kind = "none")

\* C22: a factory call, failed or not, spawns no child and imports no module:
\* right after it no child was ever spawned, no handle is held, no module is
\* loaded and nothing was written; a missing command for the stdio transport, a
\* missing module path for the direct transport, a tag that is neither, and a
\* create_server_runner call given neither, raise ValueError and leave no object;
\* as long as no object was built nothing is ever spawned or imported.
C22_ConfigurationErrorsBeforeInteraction ==
    /\ (ret.op \in {"create_connection", "create_server_runner"} \/ kind = "none")
          => /\ procs = <<>> /\ _process = 0
             /\ ~_module /\ nimports = 0
             /\ nwritten = 0 /\ io = <<>>
    /\ ret.op = "create_connection"
          => /\ (lower(ret.name) = "stdio" /\ ~Given(ret.args, "command"))
                   => (ret.status = "raised" /\ ret.exc = "ValueError" /\ kind = "none")
             /\ (lower(ret.name) = "direct" /\ ~Given(ret.args, "module_path"))
                   => (ret.status = "raised" /\ ret.exc = "ValueError" /\ kind = "none")
             /\ lower(ret.name) \notin {"stdio", "direct"}
                   => (ret.status = "raised" /\ ret.exc = "ValueError" /\ kind = "none")
    /\ (ret.op = "create_server_runner" /\ ~Given(ret.args, "command")
           /\ ~Given(ret.args, "module_path"))
          => (ret.status = "raised" /\ ret.exc = "ValueError" /\ kind = "none")

\* A create_connection call for the stdio transport with an empty command failed.
C22_Witness ==
    /\ ret.op = "create_connection"
    /\ ret.name = "stdio"
    /\ HasKey(ret.args, "command") /\ ~Given(ret.args, "command")
    /\ ret.status = "raised"
    /\ ret.val = JStr("Command is required for stdio transport")
    /\ procs = <<>> /\ nimports = 0

\* The server object at hand of an in-process object: the server_instance it was
\* given, else what the module's Server class makes, else none.
ServerAtHand ==
    IF server_instance.present THEN server_instance
    ELSE IF hasattr(module, "Server") THEN ModuleServer
    ELSE NoServer

\* C23 (as claimed): an in-process call_tool(name, args) calls the callable of that
\* name on the server instance it was given; failing that the module-level callable
\* of that name; failing that the module's call_tool; and it fails with "Tool not
\* found" exactly when none of the three exists.
C23_CallToolResolutionOrder ==
    (kind \in ModuleKinds /\ ret.op = "call_tool")
        => LET onServer == server_instance.present /\ ret.name \in server_instance.callables
               onModule == callable(module, ret.name)
               dispatcher == hasattr(module, "call_tool")
           IN  /\ onServer => io = <<Ev("call", "server." \o ret.name, 0)>>
               /\ (~onServer /\ onModule) => io = <<Ev("call", "module." \o ret.name, 0)>>
               /\ (~onServer /\ ~onModule /\ dispatcher)
                     => io = <<Ev("call", "module.call_tool", 0)>>
               /\ (ret.status = "raised" /\ ret.exc = "ValueError"
                      /\ ret.val = JStr("Tool not found"))
                     <=> ~(onServer \/ onModule \/ dispatcher)

\* C24 (as claimed): an in-process list_tools returns the module's list_tools(),
\* else its get_tools(), else its tools attribute; when the module has none of
\* them, one descriptor for each public callable of the server object at hand; and
\* the empty list only when there is no server object.
C24_ListToolsResolutionOrder ==
    (kind \in ModuleKinds /\ ret.op = "list_tools")
        => /\ ret.status = "returned"
           /\ ret.val = IF hasattr(module, "list_tools") THEN JList("module.list_tools()")
                        ELSE IF hasattr(module, "get_tools") THEN JList("module.get_tools()")
                        ELSE IF hasattr(module, "tools") THEN JList("module.tools")
                        ELSE IF ServerAtHand.present THEN _discover_tools(ServerAtHand)
                        ELSE JList("[]")

C26_MalformedResponseIsFatal ==
    /\ [](/\ (/\ response.stop_reason = "tool_use"
                 /\ \A i \in 1..Len(response.content) :
                       response.content[i].type # "tool_use"
                 /\ pc # "responded")
                => (pc = "failed" /\ failure.from = "response")
          /\ failure.from = "response"
                => /\ pc = "failed"
                   /\ response.stop_reason = "tool_use"
                   /\ \A i \in 1..Len(response.content) :
                         response.content[i].type # "tool_use"
                   /\ Last(messages) = AssistantMessage(response.content)
                   /\ ToolResults = ntool
                   /\ SumCounts(tool_metrics) = ntool
                   /\ nengine = ntool + 1)
    /\ [][(failure'.from = "response" /\ failure.from # "response")
             => UNCHANGED <<procs, _process, pipe, nwritten, nread, _module, nimports,
                            io, ret, messages, tool_metrics, ntool>>]_vars

\* The loop failed on a malformed response that came after one tool invocation.
C26_Witness ==
    /\ pc = "failed"
    /\ failure.from = "response"
    /\ response = ToolUseNone
    /\ ntool = 1
    /\ ToolResults = 1

C28_DoneYieldsTaskResult ==
    [][(pc = "done" /\ task >= 1 /\ pc' # "done")
          => /\ pc' = "task"
             /\ failure' = failure
             /\ task' = task + 1
             /\ Len(results') = Len(results) + 1
             /\ Last(results').score \in {0, 1}
             /\ (response_text.none \/ Last(results').actual.none)
                   => Last(results').score = 0]_vars

\* The message of the RuntimeError a process-backed caller raises with no handle.
NotRunningText ==
    CASE kind = "ScriptBasedToolCaller" -> "Server not running"
      [] kind = "ToolCaller" -> "Server not running. Call start() first."
      [] kind = "ServerRunner" -> "Server process not running"
      [] OTHER -> ""

\* C29: on ScriptBasedToolCaller, ToolCaller and ServerRunner a list_tools or
\* call_tool made while no handle is held raises the class's "not running"
\* RuntimeError, writes no request, spawns nothing and leaves the channel as it
\* was; a request of these classes that touched the streams held a handle.
C29_NotRunningRaisesEarly ==
    /\ []((kind \in {"ScriptBasedToolCaller", "ToolCaller", "ServerRunner"}
              /\ ret.op \in {"list_tools", "call_tool"})
             => /\ io # <<>> => _process # 0
                /\ _process = 0
                      => /\ ret.status = "raised" /\ ret.exc = "RuntimeError"
                         /\ ret.val = JStr(NotRunningText)
                         /\ io = <<>>)
    /\ [][(/\ kind \in {"ScriptBasedToolCaller", "ToolCaller", "ServerRunner"}
            /\ _process = 0
            /\ ret'.op \in {"list_tools", "call_tool"}
            /\ <<ret, io>>' # <<ret, io>>)
             => /\ ret'.status = "raised" /\ ret'.exc = "RuntimeError"
                /\ ret'.val = JStr(NotRunningText)
                /\ io' = <<>>
                /\ UNCHANGED <<procs, _process, pipe, nwritten, nread, nrun, _module,
                               nimports>>]_vars

\* A ToolCaller that was started and stopped, then asked for a tool.
C29_Witness ==
    /\ kind = "ToolCaller"
    /\ Len(procs) = 1 /\ procs[1] = "exited"
    /\ _process = 0
    /\ ret.op = "call_tool" /\ ret.status = "raised"
    /\ ret.val = JStr("Server not running. Call start() first.")
    /\ io = <<>> /\ nwritten = 0

\* C30: on StdioConnection at most one child is alive, and it is the held one; no
\* request is written to a child that has exited; a list_tools or call_tool made
\* while no live child is held (never started, stopped, or the child has exited)
\* first spawns a child, holds it and writes its request to it, or raises what
\* Popen raised with nothing written; one made while the held child is alive
\* writes to that child and spawns nothing.
C30_StdioRespawnsOnDemand ==
    /\ [](kind = "StdioConnection"
             => /\ Cardinality(LiveChildren) <= 1
                /\ LiveChildren \subseteq {_process}
                /\ \A i \in 1..Len(io) : io[i].ev # "flush_error")
    /\ [][(/\ kind = "StdioConnection"
            /\ ret'.op \in {"list_tools", "call_tool"}
            /\ <<ret, io, nwritten>>' # <<ret, io, nwritten>>)
             => IF _process = 0 \/ procs[_process] # "running"
                THEN \/ /\ Len(procs') = Len(procs) + 1
                        /\ _process' = Len(procs')
                        /\ nwritten' = nwritten + 1
                        /\ io'[1] = Ev("Popen", "", _process')
                        /\ io'[2].ev = "write" /\ io'[2].idx = _process'
                     \/ /\ ret'.status = "raised" /\ ret'.exc = "OSError"
                        /\ io' = <<>>
                        /\ UNCHANGED <<procs, _process, nwritten>>
                ELSE /\ Len(procs') = Len(procs)
                     /\ _process' = _process
                     /\ nwritten' = nwritten + 1
                     /\ io'[1].ev = "write" /\ io'[1].idx = _process]_vars

\* A stopped connection asked for a tool: a second child was spawned and answered.
C30_Witness ==
    /\ kind = "StdioConnection"
    /\ Len(procs) = 2 /\ procs[1] = "exited"
    /\ _process = 2
    /\ ret.op = "call_tool" /\ ret.status = "returned"
    /\ Len(io) = 4 /\ io[1] = Ev("Popen", "", 2) /\ io[2].ev = "write" /\ io[2].idx = 2
    /\ nwritten = 1

====
